---- MODULE Spec2Model ----
(***************************************************************************)
(* A model of rocketmq-client-rs: the frame codec (src/src/frame.rs), the  *)
(* stream connection (src/src/connection.rs) and the opaque counter.       *)
(*                                                                         *)
(* Bytes are integers 0..255 and buffers are sequences of bytes.  The      *)
(* header is the JSON text serde_json writes and reads for `Frame`,        *)
(* modelled byte by byte.                                                  *)
(***************************************************************************)
EXTENDS Integers, Sequences, FiniteSets, TLC

(***************************************************************************)
(* Text: the ASCII codes of the characters the header JSON is made of.     *)
(***************************************************************************)
DigitChars == << "0", "1", "2", "3", "4", "5", "6", "7", "8", "9" >>
UpperChars ==
    << "A", "B", "C", "D", "E", "F", "G", "H", "I", "J", "K", "L", "M",
       "N", "O", "P", "Q", "R", "S", "T", "U", "V", "W", "X", "Y", "Z" >>
LowerChars ==
    << "a", "b", "c", "d", "e", "f", "g", "h", "i", "j", "k", "l", "m",
       "n", "o", "p", "q", "r", "s", "t", "u", "v", "w", "x", "y", "z" >>
PunctChars ==
    (" " :> 32) @@ ("\"" :> 34) @@ ("," :> 44) @@ ("-" :> 45) @@ ("." :> 46)
    @@ (":" :> 58) @@ (";" :> 59) @@ ("[" :> 91) @@ ("\\" :> 92) @@ ("]" :> 93) @@ ("{" :> 123) @@ ("}" :> 125)

IndexOf(seq, c) == CHOOSE i \in 1..Len(seq) : seq[i] = c

Ord(c) ==
    IF c \in DOMAIN PunctChars THEN PunctChars[c]
    ELSE IF \E i \in 1..Len(DigitChars) : DigitChars[i] = c THEN 47 + IndexOf(DigitChars, c)
    ELSE IF \E i \in 1..Len(UpperChars) : UpperChars[i] = c THEN 64 + IndexOf(UpperChars, c)
    ELSE 96 + IndexOf(LowerChars, c)

\* The bytes of a text given as a tuple of one-character strings.
Text(cs) == [i \in 1..Len(cs) |-> Ord(cs[i])]

QUOTE     == Ord("\"")
BACKSLASH == Ord("\\")
LBRACE    == Ord("{")
RBRACE    == Ord("}")
COLON     == Ord(":")
COMMA     == Ord(",")
MINUS     == Ord("-")
ZERO      == Ord("0")

\* JSON whitespace: space, tab, line feed, carriage return.
IsSpace(b) == b \in {Ord(" "), 9, 10, 13}
IsDigit(b) == b >= ZERO /\ b <= ZERO + 9

(***************************************************************************)
(* 32-bit integers.                                                        *)
(***************************************************************************)
I32Max == 2147483647
I32Min == -I32Max - 1

\* BufMut::put_i32: four bytes, big-endian, two's complement.
PutI32(n) ==
    << (n \div 16777216) % 256, (n \div 65536) % 256, (n \div 256) % 256, n % 256 >>

\* Buf::get_i32 at offset `pos` (0-based) of `buf`: big-endian, signed.
GetI32(buf, pos) ==
    LET b0 == buf[pos + 1]
        hi == IF b0 >= 128 THEN b0 - 256 ELSE b0
    IN  hi * 16777216 + buf[pos + 2] * 65536 + buf[pos + 3] * 256 + buf[pos + 4]

\* `n as usize` for an i32 n: a negative n sign-extends to 2^64 + n, far above
\* every slice length.  TLC's integers end at 2^31 - 1, so the model maps the
\* negative values onto the top of that range, still above every buffer length.
AsUsize(n) == IF n < 0 THEN I32Max + (n + 1) ELSE n

(***************************************************************************)
(* The Frame value (frame.rs:29-56).  remark is a byte string, ext_fields  *)
(* a function from byte strings to byte strings, body a byte sequence.     *)
(***************************************************************************)
Languages == {"JAVA", "CPP", "RUST"}

LanguageText(l) ==
    CASE l = "JAVA" -> Text(<<"J", "A", "V", "A">>)
      [] l = "CPP"  -> Text(<<"C", "P", "P">>)
      [] l = "RUST" -> Text(<<"R", "U", "S", "T">>)

EmptyMap == [k \in {} |-> <<>>]

\* Default::default() for Frame: zeros, Language::RUST, empty strings and maps.
DefaultFrame ==
    [code |-> 0, language |-> "RUST", version |-> 0, opaque |-> 0, flag |-> 0,
     remark |-> <<>>, ext_fields |-> EmptyMap, body |-> <<>>]

\* The field names serde writes under rename_all = "camelCase".
KeyCode      == Text(<<"c", "o", "d", "e">>)
KeyLanguage  == Text(<<"l", "a", "n", "g", "u", "a", "g", "e">>)
KeyVersion   == Text(<<"v", "e", "r", "s", "i", "o", "n">>)
KeyOpaque    == Text(<<"o", "p", "a", "q", "u", "e">>)
KeyFlag      == Text(<<"f", "l", "a", "g">>)
KeyRemark    == Text(<<"r", "e", "m", "a", "r", "k">>)
KeyExtFields == Text(<<"e", "x", "t", "F", "i", "e", "l", "d", "s">>)

(***************************************************************************)
(* serde_json::to_vec(&Frame): the header JSON (frame.rs:29-56 and 130).   *)
(***************************************************************************)
RECURSIVE NegDigits(_)
\* The decimal digits of |n| for n < 0, without negating n (i32::MIN has no
\* positive counterpart).
NegDigits(n) ==
    LET d == (10 - (n % 10)) % 10
        r == (n + d) \div 10
    IN  (IF r = 0 THEN <<>> ELSE NegDigits(r)) \o <<ZERO + d>>

RECURSIVE PosDigits(_)
PosDigits(n) == (IF n < 10 THEN <<>> ELSE PosDigits(n \div 10)) \o <<ZERO + (n % 10)>>

\* An i32 as serde_json writes it.
WriteI32(n) == IF n < 0 THEN <<MINUS>> \o NegDigits(n) ELSE PosDigits(n)

RECURSIVE Escape(_)
\* The characters of a JSON string: serde_json escapes the quote and the
\* backslash (control characters, escaped too, are outside the model's texts).
Escape(str) ==
    IF str = <<>> THEN <<>>
    ELSE (IF Head(str) \in {QUOTE, BACKSLASH} THEN <<BACKSLASH, Head(str)>> ELSE <<Head(str)>>)
         \o Escape(Tail(str))

\* A string written without escaping.
WriteStr_raw(str) == <<QUOTE>> \o str \o <<QUOTE>>

WriteStr(str) == <<QUOTE>> \o Escape(str) \o <<QUOTE>>

WriteKey(key) == WriteStr(key) \o <<COLON>>

RECURSIVE WriteEntries(_, _)
\* The entries of ext_fields in the order `keys`, comma separated.
WriteEntries(map, keys) ==
    IF keys = <<>> THEN <<>>
    ELSE WriteKey(Head(keys)) \o WriteStr(map[Head(keys)])
         \o (IF Len(keys) > 1 THEN <<COMMA>> ELSE <<>>)
         \o WriteEntries(map, Tail(keys))

\* A HashMap iterates in an order of its own choosing: every enumeration of
\* the keys is an order serde_json may write them in.
KeyOrders(map) ==
    {ks \in [1..Cardinality(DOMAIN map) -> DOMAIN map] :
        \A i, j \in DOMAIN ks : i # j => ks[i] # ks[j]}

\* serde_json::to_vec(self): the fields in declaration order, remark and
\* extFields skipped when empty, body skipped always.
ToVec(f, keys) ==
    <<LBRACE>>
    \o WriteKey(KeyCode) \o WriteI32(f.code) \o <<COMMA>>
    \o WriteKey(KeyLanguage) \o WriteStr(LanguageText(f.language)) \o <<COMMA>>
    \o WriteKey(KeyVersion) \o WriteI32(f.version) \o <<COMMA>>
    \o WriteKey(KeyOpaque) \o WriteI32(f.opaque) \o <<COMMA>>
    \o WriteKey(KeyFlag) \o WriteI32(f.flag)
    \o (IF f.remark = <<>> THEN <<>>
        ELSE <<COMMA>> \o WriteKey(KeyRemark) \o WriteStr(f.remark))
    \o (IF DOMAIN f.ext_fields = {} THEN <<>>
        ELSE <<COMMA>> \o WriteKey(KeyExtFields)
             \o <<LBRACE>> \o WriteEntries(f.ext_fields, keys) \o <<RBRACE>>)
    \o <<RBRACE>>

\* encode counting the total_length field itself in total_length.
EncodeWith_counting_itself(f, keys) ==
    LET header == ToVec(f, keys)
        len    == 8 + Len(header) + Len(f.body)
    IN  PutI32(len) \o PutI32(Len(header)) \o header \o f.body

\* Frame::encode: total length, header length, header, body.
EncodeWith(f, keys) ==
    LET header == ToVec(f, keys)
        len    == 4 + Len(header) + Len(f.body)
    IN  PutI32(len) \o PutI32(Len(header)) \o header \o f.body

(***************************************************************************)
(* serde_json::from_reader::<Frame>: the reading side (frame.rs:110).      *)
(* A read yields [ok, val, next]: `next` is the index of the first byte    *)
(* not consumed.  The reader covers JSON objects of the seven header       *)
(* fields in any order, with whitespace between tokens, strings with the   *)
(* two escapes Escape writes, and decimal integers.                        *)
(***************************************************************************)
Fail == [ok |-> FALSE, val |-> 0, next |-> 0]
Got(v, n) == [ok |-> TRUE, val |-> v, next |-> n]

RECURSIVE SkipSpace(_, _)
SkipSpace(s, i) == IF i <= Len(s) /\ IsSpace(s[i]) THEN SkipSpace(s, i + 1) ELSE i

\* Whether byte i of s exists and is b.
At(s, i, b) == i <= Len(s) /\ s[i] = b

\* The byte b put in front of the string read as r.
Cons(b, r) == IF r.ok THEN Got(<<b>> \o r.val, r.next) ELSE Fail

RECURSIVE ReadChars(_, _)
\* The characters of a string, from just after its opening quote.
ReadChars(s, i) ==
    IF i > Len(s) THEN Fail
    ELSE IF s[i] = QUOTE THEN Got(<<>>, i + 1)
    ELSE IF s[i] = BACKSLASH THEN
        IF i + 1 <= Len(s) /\ s[i + 1] \in {QUOTE, BACKSLASH}
        THEN Cons(s[i + 1], ReadChars(s, i + 2))
        ELSE Fail
    ELSE IF s[i] < 32 \/ s[i] > 127 THEN Fail
    ELSE Cons(s[i], ReadChars(s, i + 1))

ReadStr(s, i) == IF At(s, i, QUOTE) THEN ReadChars(s, i + 1) ELSE Fail

RECURSIVE ReadDigits(_, _, _)
\* Accumulates the digits from i as a negative number, so that i32::MIN fits;
\* fails when the value leaves the i32 range.
ReadDigits(s, i, acc) ==
    IF i > Len(s) \/ ~IsDigit(s[i]) THEN Got(acc, i)
    ELSE IF acc < -(I32Max \div 10) \/ (acc = -(I32Max \div 10) /\ s[i] - ZERO > 8)
    THEN Fail
    ELSE ReadDigits(s, i + 1, acc * 10 - (s[i] - ZERO))

\* The digits read as r, a negative number, with the sign neg.
Signed(r, neg) ==
    IF ~r.ok THEN Fail
    ELSE IF neg THEN r
    ELSE IF r.val = I32Min THEN Fail
    ELSE Got(-r.val, r.next)

\* The digits of an i32 from j: 0 alone, or digits without a leading zero.
\* serde_json reads -0 as a float, which no i32 field accepts.
ReadNumber(s, j, neg) ==
    IF j > Len(s) \/ ~IsDigit(s[j]) THEN Fail
    ELSE IF s[j] = ZERO THEN
        IF neg \/ (j + 1 <= Len(s) /\ IsDigit(s[j + 1])) THEN Fail ELSE Got(0, j + 1)
    ELSE Signed(ReadDigits(s, j, 0), neg)

\* An i32: an optional minus, then the digits.
ReadI32(s, i) ==
    IF At(s, i, MINUS) THEN ReadNumber(s, i + 1, TRUE) ELSE ReadNumber(s, i, FALSE)

RECURSIVE ReadEntries(_, _, _)
\* After an entry: the end of the object at e, or a comma and the next entry.
EntryEnd(s, e, map) ==
    IF At(s, e, RBRACE) THEN Got(map, e + 1)
    ELSE IF At(s, e, COMMA) THEN ReadEntries(s, SkipSpace(s, e + 1), map)
    ELSE Fail

\* The entry key -> v added to map; a repeated key keeps the later value
\* (HashMap::insert).
EntryValue(s, key, v, map) ==
    IF ~v.ok THEN Fail ELSE EntryEnd(s, SkipSpace(s, v.next), (key :> v.val) @@ map)

EntryColon(s, c, key, map) ==
    IF ~At(s, c, COLON) THEN Fail
    ELSE EntryValue(s, key, ReadStr(s, SkipSpace(s, c + 1)), map)

EntryKey(s, k, map) ==
    IF ~k.ok THEN Fail ELSE EntryColon(s, SkipSpace(s, k.next), k.val, map)

\* The entries of a string-to-string object, from its first key.
ReadEntries(s, i, map) == EntryKey(s, ReadStr(s, i), map)

ReadMapFrom(s, j) ==
    IF At(s, j, RBRACE) THEN Got(EmptyMap, j + 1) ELSE ReadEntries(s, j, EmptyMap)

\* A HashMap<String, String>: an object of strings.
ReadMap(s, i) == IF ~At(s, i, LBRACE) THEN Fail ELSE ReadMapFrom(s, SkipSpace(s, i + 1))

KnownKeys ==
    {KeyCode, KeyLanguage, KeyVersion, KeyOpaque, KeyFlag, KeyRemark, KeyExtFields}

\* Fields without #[serde(default)]: a header lacking one is rejected.
RequiredKeys == {KeyCode, KeyLanguage, KeyVersion, KeyOpaque, KeyFlag}

\* The i32 read as r stored into the field `key` of fr.
StoreI32(key, fr, r) ==
    IF ~r.ok THEN Fail
    ELSE Got(CASE key = KeyCode    -> [fr EXCEPT !.code = r.val]
               [] key = KeyVersion -> [fr EXCEPT !.version = r.val]
               [] key = KeyOpaque  -> [fr EXCEPT !.opaque = r.val]
               [] key = KeyFlag    -> [fr EXCEPT !.flag = r.val], r.next)

\* The variant named by the string read as r stored into fr.language.
StoreLanguage(fr, r) ==
    IF r.ok /\ \E l \in Languages : LanguageText(l) = r.val
    THEN Got([fr EXCEPT !.language = CHOOSE l \in Languages : LanguageText(l) = r.val],
             r.next)
    ELSE Fail

StoreRemark(fr, r) == IF r.ok THEN Got([fr EXCEPT !.remark = r.val], r.next) ELSE Fail

StoreExtFields(fr, r) ==
    IF r.ok THEN Got([fr EXCEPT !.ext_fields = r.val], r.next) ELSE Fail

\* The value of an unknown field is read and dropped.
Skipped(fr, r) == IF r.ok THEN Got(fr, r.next) ELSE Fail

\* The value of field `key` at i, stored into the frame fr.  The value of an
\* unknown field is a string or an integer in the model.
ReadValue(s, i, key, fr) ==
    IF key \in {KeyCode, KeyVersion, KeyOpaque, KeyFlag} THEN StoreI32(key, fr, ReadI32(s, i))
    ELSE IF key = KeyLanguage THEN StoreLanguage(fr, ReadStr(s, i))
    ELSE IF key = KeyRemark THEN StoreRemark(fr, ReadStr(s, i))
    ELSE IF key = KeyExtFields THEN StoreExtFields(fr, ReadMap(s, i))
    ELSE Skipped(fr, IF At(s, i, QUOTE) THEN ReadStr(s, i) ELSE ReadI32(s, i))

RECURSIVE ReadMembers(_, _, _, _)
\* After a member: the end of the object at e, or a comma and the next member.
MemberEnd(s, e, seen, fr) ==
    IF At(s, e, RBRACE) THEN Got([seen |-> seen, frame |-> fr], e + 1)
    ELSE IF At(s, e, COMMA) THEN ReadMembers(s, SkipSpace(s, e + 1), seen, fr)
    ELSE Fail

MemberValue(s, v, seen) ==
    IF ~v.ok THEN Fail ELSE MemberEnd(s, SkipSpace(s, v.next), seen, v.val)

MemberColon(s, c, key, seen, fr) ==
    IF ~At(s, c, COLON) THEN Fail
    ELSE MemberValue(s, ReadValue(s, SkipSpace(s, c + 1), key, fr),
                     seen \cup ({key} \cap KnownKeys))

\* `seen` are the known fields read so far: a second occurrence of one is the
\* error "duplicate field".
MemberKey(s, k, seen, fr) ==
    IF ~k.ok THEN Fail
    ELSE IF k.val \in seen THEN Fail
    ELSE MemberColon(s, SkipSpace(s, k.next), k.val, seen, fr)

\* The members of the header object, from its first key.
ReadMembers(s, i, seen, fr) == MemberKey(s, ReadStr(s, i), seen, fr)

\* remark, ext_fields and body start from their defaults (body is
\* #[serde(skip)]).
ReadObject(s, j) ==
    IF At(s, j, RBRACE) THEN Got([seen |-> {}, frame |-> DefaultFrame], j + 1)
    ELSE ReadMembers(s, j, {}, DefaultFrame)

\* Every required field was read and nothing but whitespace follows.
Complete(s, r) ==
    IF ~r.ok THEN Fail
    ELSE IF ~(RequiredKeys \subseteq r.val.seen) THEN Fail
    ELSE IF SkipSpace(s, r.next) <= Len(s) THEN Fail
    ELSE Got(r.val.frame, r.next)

FromReaderAt(s, i) ==
    IF ~At(s, i, LBRACE) THEN Fail ELSE Complete(s, ReadObject(s, SkipSpace(s, i + 1)))

\* serde_json::from_reader::<Frame>.
FromReader(s) == FromReaderAt(s, SkipSpace(s, 1))

(***************************************************************************)
(* Frame::check, Frame::parse, Frame::read_i32 (frame.rs:87-127).  A cursor *)
(* is the buffer and a 0-based position.                                   *)
(***************************************************************************)
\* Frame::read_i32 at position pos.
read_i32(buf, pos) ==
    IF Len(buf) - pos < 4 THEN Fail ELSE Got(GetI32(buf, pos), pos + 4)

\* Frame::check after its read_i32, with the comparison off by one: a frame
\* that is exactly complete counts as incomplete.
check_length_strict(buf, r) ==
    IF ~r.ok THEN [res |-> "Incomplete", pos |-> 0]
    ELSE IF Len(buf) - r.next <= AsUsize(r.val)
    THEN [res |-> "Incomplete", pos |-> r.next]
    ELSE [res |-> "Ok", pos |-> r.next + AsUsize(r.val)]

\* Frame::check after its read_i32 returned r (frame.rs:90-98).
check_length(buf, r) ==
    IF ~r.ok THEN [res |-> "Incomplete", pos |-> 0]
    ELSE IF Len(buf) - r.next < AsUsize(r.val)
    THEN [res |-> "Incomplete", pos |-> r.next]
    ELSE [res |-> "Ok", pos |-> r.next + AsUsize(r.val)]

\* Frame::check on a cursor at position 0: "Ok" with the position advanced
\* past the frame, or "Incomplete".
check(buf) == check_length(buf, read_i32(buf, 0))

\* Outcomes of parse and of the connection's calls.
Outcome(kind, frame, msg) == [kind |-> kind, frame |-> frame, msg |-> msg]
OkFrame(f)        == Outcome("Frame", f, "")
InvalidFrame(msg) == Outcome("InvalidFrame", DefaultFrame, msg)
\* Buf::copy_to_bytes asserts len <= remaining: the thread panics.
Panic             == Outcome("Panic", DefaultFrame, "len greater than remaining")

\* frame.rs:110-119: the header read as `frame`, the cursor at `at`.
parse_body(buf, frame, at, body_length) ==
    IF ~frame.ok THEN InvalidFrame("Invalid frame header JSON")
    ELSE IF body_length > 0 THEN
        IF body_length > Len(buf) - at THEN Panic
        ELSE OkFrame([frame.val EXCEPT !.body = SubSeq(buf, at + 1, at + body_length)])
    ELSE OkFrame(frame.val)

\* frame.rs:109-114: both lengths read, the cursor at `at`.
parse_header(buf, frame_length, header_length, at) ==
    IF AsUsize(header_length) > Len(buf) - at THEN Panic
    ELSE parse_body(buf, FromReader(SubSeq(buf, at + 1, at + header_length)),
                    at + header_length, frame_length - 4 - header_length)

\* frame.rs:105-107.
parse_header_length(buf, frame_length, header_length) ==
    IF ~header_length.ok THEN InvalidFrame("Invalid frame header length")
    ELSE parse_header(buf, frame_length, header_length.val, header_length.next)

\* frame.rs:102-104.
parse_frame_length(buf, frame_length) ==
    IF ~frame_length.ok THEN InvalidFrame("Invalid frame length")
    ELSE parse_header_length(buf, frame_length.val, read_i32(buf, frame_length.next))

\* Frame::parse on a cursor at position 0 over the whole buffer.
parse(buf) == parse_frame_length(buf, read_i32(buf, 0))

(***************************************************************************)
(* Connection (connection.rs:16-96): the receive side.                     *)
(***************************************************************************)
Incomplete == Outcome("Incomplete", DefaultFrame, "")

\* connection.rs:82-84 clearing the buffer instead of advancing it by len.
advance_clear(buf, len, frame) ==
    IF frame.kind = "Frame"
    THEN [ret |-> frame, buffer |-> <<>>]
    ELSE [ret |-> frame, buffer |-> buf]

\* connection.rs:81-82 with the buffer advanced before the `?` on the result
\* of parse.
advance_always(buf, len, frame) ==
    [ret |-> frame, buffer |-> SubSeq(buf, len + 1, Len(buf))]

\* connection.rs:82-84: `?` returns the error of parse with the buffer as it
\* is; otherwise the buffer is advanced by len and the frame returned.
advance(buf, len, frame) ==
    IF frame.kind = "Frame"
    THEN [ret |-> frame, buffer |-> SubSeq(buf, len + 1, Len(buf))]
    ELSE [ret |-> frame, buffer |-> buf]

\* connection.rs:78-94: Frame::check yields Ok or Incomplete only, so the arm
\* for Error::Other is never taken.
parse_checked(buf, checked) ==
    IF checked.res = "Ok" THEN advance(buf, checked.pos, parse(buf))
    ELSE [ret |-> Incomplete, buffer |-> buf]

\* Connection::parse_frame on the receive buffer: the outcome and the buffer
\* it leaves.
parse_frame(buf) == parse_checked(buf, check(buf))

\* The test of connection.rs:59 inverted.
AtEndOfStream_inverted(buf) ==
    IF buf # <<>> THEN Outcome("Eof", DefaultFrame, "")
    ELSE Outcome("ConnectionReset", DefaultFrame, "")

\* read_frame after a socket read of zero bytes (connection.rs:59-63).
AtEndOfStream(buf) ==
    IF buf = <<>> THEN Outcome("Eof", DefaultFrame, "")
    ELSE Outcome("ConnectionReset", DefaultFrame, "")

\* `?` on the io::Error of read_buf: ClientError::ConnectTimeout(#[from] io::Error).
IoError == Outcome("Io", DefaultFrame, "")

NoReturn == Outcome("None", DefaultFrame, "")

(***************************************************************************)
(* Bounds and the inputs of the model.                                     *)
(***************************************************************************)
\* The peer writes at most MaxSends messages on one connection.
MaxSends == 2

TextTopic == Text(<<"t", "o", "p", "i", "c">>)
TextT1    == Text(<<"T", "1">>)

\* The frames the peer sends: a response with a remark and a body, and the
\* request of connection.rs:129-132.
PeerFrames ==
    { [DefaultFrame EXCEPT !.language = "JAVA", !.flag = 1, !.opaque = 1,
                           !.remark = Text(<<"o", "k">>), !.body = <<LBRACE, 0, 255>>],
      [DefaultFrame EXCEPT !.code = 105, !.language = "CPP",
                           !.ext_fields = (TextTopic :> TextT1)] }

\* Malformed messages: a negative total_length, a header_length that
\* overruns the frame, a header lacking its fields, and a total_length of 0
\* with nothing after it.
Malformed ==
    { PutI32(-1) \o <<LBRACE, RBRACE>>,
      PutI32(6) \o PutI32(3) \o <<LBRACE, RBRACE>>,
      PutI32(6) \o PutI32(2) \o <<LBRACE, RBRACE>>,
      PutI32(0) }

\* The model records the first MaxErrs decode errors read_frame returns.
MaxErrs == 2

VARIABLES
    buffer,      \* Connection.buffer: bytes read and not yet consumed
    wire,        \* bytes the peer wrote that no read has delivered yet
    peerClosed,  \* the peer closed its end
    sent,        \* history: the frames the peer wrote, each with its bytes
    stream,      \* history: "whole" frames only, "truncated" or "garbage"
    rpc,         \* read_frame: "idle", "parse", "read", "reading", "aborted"
    rret,        \* what the last read_frame call returned
    got,         \* history: the frames read_frame returned, in order
    cut,         \* history: where the current call first found a part of a frame
    errs,        \* history: the decode errors read_frame returned
    cpc,         \* codec run: "new", "encoded", "decoded"
    cframe,      \* codec run: the Frame value given to encode
    cbuf,        \* codec run: the bytes given to check and parse
    ctamper,     \* codec run: what was done to the encoded bytes
    cchk,        \* codec run: what Frame::check returned
    cres,        \* codec run: what Frame::parse returned
    SEQUENCE,    \* the static AtomicI32 of Frame::next_opaque
    tpc,         \* Frame::new in each thread: "idle", "next_opaque", "build"
    local,       \* each thread: what its fetch_add returned
    began,       \* history: how many calls had returned when the thread's call began
    handed,      \* history: the values fetch_add returned, in modification order
    made,        \* history: the calls that returned, each with its Frame
    stream_buf,  \* Connection.stream: the bytes the BufWriter holds
    socket_out,  \* the bytes handed to the TcpStream, in order
    wpc,         \* write_frame: "idle", "write_all", "flush"
    wret,        \* what the last write_frame call returned
    wbytes,      \* the bytes encode gave the current write_frame call
    rest,        \* write_all: the bytes not yet accepted by the BufWriter
    writes,      \* how many write_frame calls were made
    noop,        \* history: a call found encode to yield no bytes
    tframe,      \* flag run: the Frame whose type is asked and marked
    tprev,       \* flag run: the Frame before the last mark_response_type
    marks,       \* flag run: how many times mark_response_type was called
    origin,      \* flag run: "new" from Frame::new, "parsed" from the wire
    topic_routes, \* RouteManager.topic_routes: the map under the Mutex
    holder,      \* the Mutex: 0 when free, else the thread holding it
    poisoned,    \* the Mutex: a holder panicked while holding it
    qpc,         \* route in each caller: "idle", "lock", "get", "err", "drop", "return"
    qtopic,      \* each caller: the topic it asks for
    qseen,       \* history: the poison flag and the map when the caller got the lock
    qlocal,      \* each caller: the value route is about to return
    qret,        \* each caller: what its last route call returned
    calls,       \* how many route calls were made
    refreshes,   \* how many times the refresher took the lock
    nextPtr,     \* the address of the next Arc allocated
    \* RouteManager::new
    addrs,       \* the text handed to RouteManager::new
    segs,        \* the segments that text was joined from
    manager      \* what RouteManager::new returned, NoManager before the call

connVars ==
    <<buffer, wire, peerClosed, sent, stream, rpc, rret, got, cut, errs>>

codecVars == <<cpc, cframe, cbuf, ctamper, cchk, cres>>

newVars == <<SEQUENCE, tpc, local, began, handed, made>>

writeVars == <<stream_buf, socket_out, wpc, wret, wbytes, rest, writes, noop>>

flagVars == <<tframe, tprev, marks, origin>>

routeVars ==
    <<topic_routes, holder, poisoned, qpc, qtopic, qseen, qlocal, qret, calls,
      refreshes, nextPtr>>

managerVars == <<addrs, segs, manager>>

vars ==
    <<connVars, codecVars, newVars, writeVars, flagVars, routeVars, managerVars>>

ConnInit ==
    /\ buffer = <<>>
    /\ wire = <<>>
    /\ peerClosed = FALSE
    /\ sent = <<>>
    /\ stream = "whole"
    /\ rpc = "idle"
    /\ rret = NoReturn
    /\ got = <<>>
    /\ cut = "none"
    /\ errs = <<>>

\* A read cannot tell bytes still in flight from bytes not yet written, so
\* the peer's writes are all placed before the first read_frame call and the
\* socket reads decide how much of them each read sees.
Unread == rpc = "idle" /\ rret = NoReturn

\* Where the peer may stop in the middle of a frame of n bytes: inside
\* total_length and one byte short of the end.
TruncationPoints(n) == {2, n - 1}

\* The peer writes one whole frame.
PeerSend ==
    /\ Unread
    /\ ~peerClosed
    /\ Len(sent) < MaxSends
    /\ \E f \in PeerFrames : \E keys \in KeyOrders(f.ext_fields) :
          LET bytes == EncodeWith(f, keys)
          IN  /\ wire' = wire \o bytes
              /\ sent' = Append(sent, [frame |-> f, bytes |-> bytes])
    /\ UNCHANGED <<buffer, peerClosed, stream, rpc, rret, got, cut, errs>>

\* The peer writes a malformed message, once at most.
PeerSendMalformed ==
    /\ Unread
    /\ ~peerClosed
    /\ stream = "whole"
    /\ Len(sent) < MaxSends
    /\ \E bytes \in Malformed :
          /\ wire' = wire \o bytes
          /\ sent' = Append(sent, [frame |-> DefaultFrame, bytes |-> bytes])
    /\ stream' = "garbage"
    /\ UNCHANGED <<buffer, peerClosed, rpc, rret, got, cut, errs>>

\* The peer writes a proper, non-empty prefix of a frame and goes away.
PeerSendTruncated ==
    /\ Unread
    /\ ~peerClosed
    /\ Len(sent) < MaxSends
    /\ \E f \in PeerFrames : \E keys \in KeyOrders(f.ext_fields) :
          LET bytes == EncodeWith(f, keys)
          IN  \E k \in TruncationPoints(Len(bytes)) :
                 /\ wire' = wire \o SubSeq(bytes, 1, k)
                 /\ sent' = Append(sent, [frame |-> f, bytes |-> SubSeq(bytes, 1, k)])
    /\ stream' = IF stream = "whole" THEN "truncated" ELSE stream
    /\ peerClosed' = TRUE
    /\ UNCHANGED <<buffer, rpc, rret, got, cut, errs>>

\* The peer closes its end after the frames it wrote.
PeerClose ==
    /\ Unread
    /\ ~peerClosed
    /\ peerClosed' = TRUE
    /\ UNCHANGED <<buffer, wire, sent, stream, rpc, rret, got, cut, errs>>

\* The owner of the connection calls read_frame.
ReadFrameCall ==
    /\ rpc = "idle"
    /\ rpc' = "parse"
    /\ rret' = NoReturn
    /\ cut' = "none"
    /\ UNCHANGED <<buffer, wire, peerClosed, sent, stream, got, errs>>

\* Where a buffer of n bytes ends: inside the total_length field or later.
CutAt(n) == IF n < 4 THEN "total_length" ELSE "later"

\* connection.rs:54-58 with the outcome r of parse_frame: a frame or an error
\* is returned, a panic ends the caller, Incomplete goes on to the socket read.
ParseOutcome(r) ==
    /\ buffer' = r.buffer
    /\ rpc' = CASE r.ret.kind = "Incomplete" -> "read"
                [] r.ret.kind = "Panic"      -> "aborted"
                [] OTHER                     -> "idle"
    /\ rret' = IF r.ret.kind = "Incomplete" THEN rret ELSE r.ret
    /\ got' = IF r.ret.kind = "Frame" THEN Append(got, r.ret.frame) ELSE got
    /\ cut' = IF r.ret.kind = "Incomplete" /\ buffer # <<>> /\ cut = "none"
              THEN CutAt(Len(buffer))
              ELSE cut
    /\ errs' = IF r.ret.kind = "InvalidFrame" /\ Len(errs) < MaxErrs
              THEN Append(errs, r.ret)
              ELSE errs

\* connection.rs:54-56: parse_frame, returning its frame or its error.
ParseStep ==
    /\ rpc = "parse"
    /\ ParseOutcome(parse_frame(buffer))
    /\ UNCHANGED <<wire, peerClosed, sent, stream>>

\* connection.rs:58: read_buf copies the bytes in flight into the buffer, one
\* more byte at each step, and may return after any of them: a read delivers
\* any non-empty prefix of the bytes in flight.
ReadBuf ==
    /\ rpc \in {"read", "reading"}
    /\ wire # <<>>
    /\ buffer' = Append(buffer, Head(wire))
    /\ wire' = Tail(wire)
    /\ rpc' = "reading"
    /\ UNCHANGED <<peerClosed, sent, stream, rret, got, cut, errs>>

\* connection.rs:58: read_buf returns the number of bytes it brought, not
\* zero, and the loop goes round.
ReadBufReturn ==
    /\ rpc = "reading"
    /\ rpc' = "parse"
    /\ UNCHANGED <<buffer, wire, peerClosed, sent, stream, rret, got, cut, errs>>

\* connection.rs:58-64: read_buf yields zero bytes, the peer has closed.
ReadZero ==
    /\ rpc = "read"
    /\ wire = <<>>
    /\ peerClosed
    /\ rret' = AtEndOfStream(buffer)
    /\ rpc' = "idle"
    /\ UNCHANGED <<buffer, wire, peerClosed, sent, stream, got, cut, errs>>

\* connection.rs:58: read_buf fails and `?` returns the error.
ReadError ==
    /\ rpc = "read"
    /\ rret' = IoError
    /\ rpc' = "idle"
    /\ UNCHANGED <<buffer, wire, peerClosed, sent, stream, got, cut, errs>>

(***************************************************************************)
(* The codec on its own: encode, then check and parse (frame.rs:87-140).   *)
(***************************************************************************)
\* The Frame values the codec is run on.
CodecFrames ==
    { [code |-> c, language |-> l, version |-> 0, opaque |-> o, flag |-> fl,
       remark |-> r, ext_fields |-> e, body |-> b] :
        c \in {0, 105}, l \in Languages, o \in {0, I32Max, I32Min}, fl \in {0, 1},
        r \in {<<>>, Text(<<"o", "k">>), <<QUOTE, Ord("a"), BACKSLASH>>},
        e \in {EmptyMap, TextTopic :> TextT1,
               (TextTopic :> TextT1) @@ (Text(<<"a">>) :> <<>>)},
        b \in {<<>>, <<0>>, <<LBRACE, 255, 0>>} }

\* buf with the 4 bytes at 0-based offset pos replaced by the i32 n.
WithI32(buf, pos, n) ==
    SubSeq(buf, 1, pos) \o PutI32(n) \o SubSeq(buf, pos + 5, Len(buf))

Tampers ==
    {"trailing", "header_length_over", "header_length_over_trailing",
     "header_length_negative", "header_length_short", "header_bytes",
     "total_length_zero", "total_length_short"}

\* What a faulty peer does to an encoded frame: bytes of a next frame after
\* it; a header_length beyond the frame, without and with bytes after it; a
\* negative header_length; a header_length that cuts the JSON short; a header
\* that opens with a bracket; a total_length of 0; a total_length one short
\* of 4 + header_length.
Tampered(buf, kind) ==
    LET header_length == GetI32(buf, 4)
        over == GetI32(buf, 0) - 4 + 1
    IN  CASE kind = "trailing" -> buf \o PutI32(4)
          [] kind = "header_length_over" -> WithI32(buf, 4, over)
          [] kind = "header_length_over_trailing" -> WithI32(buf, 4, over) \o PutI32(4)
          [] kind = "header_length_negative" -> WithI32(buf, 4, -1)
          [] kind = "header_length_short" -> WithI32(buf, 4, header_length - 1)
          [] kind = "header_bytes" -> [buf EXCEPT ![9] = Ord("[")]
          [] kind = "total_length_zero" -> WithI32(buf, 0, 0)
          [] kind = "total_length_short" -> WithI32(buf, 0, 4 + header_length - 1)

CodecIdle ==
    /\ cpc = "new"
    /\ cframe = DefaultFrame
    /\ cbuf = <<>>
    /\ ctamper = "none"
    /\ cchk = [res |-> "None", pos |-> 0]
    /\ cres = NoReturn

CodecInit ==
    /\ cpc = "new"
    /\ cframe \in CodecFrames
    /\ cbuf = <<>>
    /\ ctamper = "none"
    /\ cchk = [res |-> "None", pos |-> 0]
    /\ cres = NoReturn

\* Frame::encode, with the HashMap in one of its orders.
Encode ==
    /\ cpc = "new"
    /\ \E keys \in KeyOrders(cframe.ext_fields) : cbuf' = EncodeWith(cframe, keys)
    /\ cpc' = "encoded"
    /\ UNCHANGED <<cframe, ctamper, cchk, cres>>

Tamper ==
    /\ cpc = "encoded"
    /\ ctamper = "none"
    /\ \E kind \in Tampers :
          /\ cbuf' = Tampered(cbuf, kind)
          /\ ctamper' = kind
    /\ UNCHANGED <<cpc, cframe, cchk, cres>>

\* Frame::check, and Frame::parse from position 0 when check succeeds
\* (connection.rs:77-82).
Decode ==
    /\ cpc = "encoded"
    /\ cchk' = check(cbuf)
    /\ cres' = IF check(cbuf).res = "Ok" THEN parse(cbuf) ELSE Incomplete
    /\ cpc' = "decoded"
    /\ UNCHANGED <<cframe, cbuf, ctamper>>

(***************************************************************************)
(* Frame::new and Frame::next_opaque (frame.rs:75-85) called from threads. *)
(***************************************************************************)
\* How many threads call Frame::new, and how many calls they make in all.
NumThreads == 2

MaxNew == 4

Threads == 1..NumThreads

\* fetch_add(1) returning the value it stored instead of the previous one.
next_opaque_add_fetch(seq) ==
    [ret      |-> IF seq = I32Max THEN I32Min ELSE seq + 1,
     SEQUENCE |-> IF seq = I32Max THEN I32Min ELSE seq + 1]

\* A load and a store in place of the fetch_add, the increment lost.
next_opaque_lost(seq) == [ret |-> seq, SEQUENCE |-> seq]

\* A counter that stays at i32::MAX once it is there.
next_opaque_saturating(seq) ==
    [ret      |-> seq,
     SEQUENCE |-> IF seq = I32Max THEN I32Max ELSE seq + 1]

\* SEQUENCE.fetch_add(1, Relaxed) on the counter holding seq: the previous
\* value is returned and the counter holds seq + 1, wrapping around.
next_opaque(seq) ==
    [ret      |-> seq,
     SEQUENCE |-> IF seq = I32Max THEN I32Min ELSE seq + 1]

NewInit ==
    /\ SEQUENCE = 0
    /\ tpc = [t \in Threads |-> "idle"]
    /\ local = [t \in Threads |-> 0]
    /\ began = [t \in Threads |-> 0]
    /\ handed = <<>>
    /\ made = <<>>

\* The counter three calls short of i32::MAX, two calls short of 0, or new:
\* handed and made record the calls from here on.
WrapInit ==
    /\ SEQUENCE \in {0, -2, I32Max - 2}
    /\ tpc = [t \in Threads |-> "idle"]
    /\ local = [t \in Threads |-> 0]
    /\ began = [t \in Threads |-> 0]
    /\ handed = <<>>
    /\ made = <<>>

\* The calls begun so far: those that returned and those under way.
Begun == Len(made) + Cardinality({t \in Threads : tpc[t] # "idle"})

\* Thread t calls Frame::new.
NewCall(t) ==
    /\ tpc[t] = "idle"
    /\ Begun < MaxNew
    /\ tpc' = [tpc EXCEPT ![t] = "next_opaque"]
    /\ began' = [began EXCEPT ![t] = Len(made)]
    /\ UNCHANGED <<SEQUENCE, local, handed, made>>

\* frame.rs:77: the fetch_add, one atomic step.
FetchAdd(t) ==
    /\ tpc[t] = "next_opaque"
    /\ SEQUENCE' = next_opaque(SEQUENCE).SEQUENCE
    /\ local' = [local EXCEPT ![t] = next_opaque(SEQUENCE).ret]
    /\ handed' = Append(handed, next_opaque(SEQUENCE).ret)
    /\ tpc' = [tpc EXCEPT ![t] = "build"]
    /\ UNCHANGED <<began, made>>

\* frame.rs:81-84: the Frame is built around the opaque and returned.
Build(t) ==
    /\ tpc[t] = "build"
    /\ made' = Append(made, [thread |-> t, began |-> began[t],
                             frame |-> [DefaultFrame EXCEPT !.opaque = local[t]]])
    /\ tpc' = [tpc EXCEPT ![t] = "idle"]
    /\ UNCHANGED <<SEQUENCE, local, began, handed>>

(***************************************************************************)
(* Connection::write_frame (connection.rs:68-74) over the BufWriter.       *)
(***************************************************************************)
\* The owner of the connection makes at most MaxWrites calls of write_frame.
MaxWrites == 2

\* The capacity of the BufWriter, scaled to the frames of the model: the
\* response is shorter and goes through the buffer, the request of
\* connection.rs:129-132 is longer and goes to the socket.
WriterCap == 90

\* Frame::encode (frame.rs:129-140): serde_json::to_vec does not fail on a
\* Frame, and the bytes are returned as Ok(Some(..)).
encode(f, keys) == [kind |-> "Some", bytes |-> EncodeWith(f, keys)]

\* How many bytes the socket takes of n bytes offered to it.
Accepts(n) == {1, n}

\* How many bytes the socket took of n bytes before it failed.
Failures(n) == {0, n - 1}

\* BufWriter::flush_buf leaving the bytes where they are.
flush_buf_keep(buf, out) == [buf |-> buf, out |-> out]

\* BufWriter::flush_buf to its end: the bytes held are written to the socket
\* in order, in as many writes as the socket needs.
flush_buf(buf, out) == [buf |-> <<>>, out |-> out \o buf]

\* BufWriter::flush_buf failing after k bytes: these are drained.
flush_buf_failed(buf, out, k) ==
    [buf |-> SubSeq(buf, k + 1, Len(buf)), out |-> out \o SubSeq(buf, 1, k)]

WriteInit ==
    /\ stream_buf = <<>>
    /\ socket_out = <<>>
    /\ wpc = "idle"
    /\ wret = NoReturn
    /\ wbytes = <<>>
    /\ rest = <<>>
    /\ writes = 0
    /\ noop = FALSE

\* connection.rs:69 with the outcome e of encode.
Encoded(e) ==
    /\ wbytes' = e.bytes
    /\ rest' = e.bytes
    /\ wpc' = IF e.kind = "Some" THEN "write_all" ELSE "idle"
    /\ wret' = IF e.kind = "Some" THEN NoReturn ELSE Outcome("Ok", DefaultFrame, "")
    /\ noop' = (noop \/ e.kind # "Some")

\* connection.rs:68-69: write_frame is called and encodes the frame.
WriteFrameCall ==
    /\ wpc = "idle"
    /\ writes < MaxWrites
    /\ writes' = writes + 1
    /\ \E f \in PeerFrames : \E keys \in KeyOrders(f.ext_fields) :
          Encoded(encode(f, keys))
    /\ UNCHANGED <<stream_buf, socket_out>>

\* BufWriter::poll_write after its flush_buf left the writer as w: bytes as
\* many as the capacity go to the socket, which takes k of them; fewer are
\* appended to the buffer.
Write(w, k) ==
    IF Len(rest) >= WriterCap
    THEN /\ stream_buf' = w.buf
         /\ socket_out' = w.out \o SubSeq(rest, 1, k)
         /\ rest' = SubSeq(rest, k + 1, Len(rest))
    ELSE /\ stream_buf' = w.buf \o rest
         /\ socket_out' = w.out
         /\ rest' = <<>>

\* connection.rs:70: one round of write_all: BufWriter::poll_write flushes
\* first when the bytes do not fit the buffer.
PollWrite ==
    /\ wpc = "write_all"
    /\ rest # <<>>
    /\ \E k \in Accepts(Len(rest)) :
          IF Len(stream_buf) + Len(rest) > WriterCap
          THEN Write(flush_buf(stream_buf, socket_out), k)
          ELSE Write([buf |-> stream_buf, out |-> socket_out], k)
    /\ UNCHANGED <<wpc, wret, wbytes, writes, noop>>

\* connection.rs:70: a write to the socket fails inside poll_write, in its
\* flush_buf or in the write of the bytes themselves, and `?` returns.
PollWriteError ==
    /\ wpc = "write_all"
    /\ rest # <<>>
    /\ \/ /\ Len(stream_buf) + Len(rest) > WriterCap
          /\ stream_buf # <<>>
          /\ \E k \in Failures(Len(stream_buf)) :
                /\ stream_buf' = flush_buf_failed(stream_buf, socket_out, k).buf
                /\ socket_out' = flush_buf_failed(stream_buf, socket_out, k).out
       \/ /\ Len(rest) >= WriterCap
          /\ stream_buf' = IF Len(stream_buf) + Len(rest) > WriterCap
                           THEN flush_buf(stream_buf, socket_out).buf
                           ELSE stream_buf
          /\ socket_out' = IF Len(stream_buf) + Len(rest) > WriterCap
                           THEN flush_buf(stream_buf, socket_out).out
                           ELSE socket_out
    /\ wret' = IoError
    /\ wpc' = "idle"
    /\ UNCHANGED <<wbytes, rest, writes, noop>>

\* connection.rs:70-71: write_all is done and flush is called.
WriteAllDone ==
    /\ wpc = "write_all"
    /\ rest = <<>>
    /\ wpc' = "flush"
    /\ UNCHANGED <<stream_buf, socket_out, wret, wbytes, rest, writes, noop>>

\* connection.rs:71-73: flush empties the buffer into the socket and
\* write_frame returns Ok(()).
Flush ==
    /\ wpc = "flush"
    /\ stream_buf' = flush_buf(stream_buf, socket_out).buf
    /\ socket_out' = flush_buf(stream_buf, socket_out).out
    /\ wret' = Outcome("Ok", DefaultFrame, "")
    /\ wpc' = "idle"
    /\ UNCHANGED <<wbytes, rest, writes, noop>>

\* connection.rs:71: a write to the socket fails inside flush.
FlushError ==
    /\ wpc = "flush"
    /\ stream_buf # <<>>
    /\ \E k \in Failures(Len(stream_buf)) :
          /\ stream_buf' = flush_buf_failed(stream_buf, socket_out, k).buf
          /\ socket_out' = flush_buf_failed(stream_buf, socket_out, k).out
    /\ wret' = IoError
    /\ wpc' = "idle"
    /\ UNCHANGED <<wbytes, rest, writes, noop>>

(***************************************************************************)
(* Frame::frame_type and Frame::mark_response_type (frame.rs:150-159).     *)
(***************************************************************************)
\* mark_response_type is called at most MaxMarks times on one Frame.
MaxMarks == 3

RECURSIVE Pow2(_)
Pow2(i) == IF i = 0 THEN 1 ELSE 2 * Pow2(i - 1)

\* Bit i of the i32 n in two's complement; bit 31 is the sign.
Bit(n, i) == IF i = 31 THEN (IF n < 0 THEN 1 ELSE 0) ELSE (n \div Pow2(i)) % 2

RECURSIVE LowBits(_, _)
\* The value of bits 0..i of b.
LowBits(b, i) == IF i < 0 THEN 0 ELSE b[i] * Pow2(i) + LowBits(b, i - 1)

\* The i32 with the 32 bits b.
FromBits(b) == IF b[31] = 1 THEN I32Min + LowBits(b, 30) ELSE LowBits(b, 30)

\* `&` and `|` on i32.
BitAnd(a, b) == FromBits([i \in 0..31 |-> Bit(a, i) * Bit(b, i)])

BitOr(a, b) ==
    FromBits([i \in 0..31 |-> IF Bit(a, i) = 1 \/ Bit(b, i) = 1 THEN 1 ELSE 0])

\* Frame::frame_type.
frame_type(f) == IF BitAnd(f.flag, 1) = 1 THEN "Response" ELSE "Request"

\* mark_response_type storing 1 instead of or-ing it in.
mark_response_type_store(f) == [f EXCEPT !.flag = 1]

\* Frame::mark_response_type.
mark_response_type(f) == [f EXCEPT !.flag = BitOr(f.flag, 1)]

\* The flags a Frame read from the wire may carry.
Flags == {0, 1, 2, 3, -1, -2, I32Max, I32Max - 1, I32Min, I32Min + 1}

\* Frames as Frame::new builds them (frame.rs:80-85).
NewFrames == {[DefaultFrame EXCEPT !.opaque = o] : o \in {0, 1, I32Max}}

\* Frames as Frame::parse yields them, with any flag.
ParsedFrames ==
    {[f EXCEPT !.flag = fl, !.code = c] : f \in PeerFrames, fl \in Flags, c \in {0, 105}}

FlagIdle ==
    /\ tframe = DefaultFrame
    /\ tprev = DefaultFrame
    /\ marks = 0
    /\ origin = "new"

FlagInit ==
    /\ \/ origin = "new" /\ tframe \in NewFrames
       \/ origin = "parsed" /\ tframe \in ParsedFrames
    /\ tprev = tframe
    /\ marks = 0

\* The owner of the Frame calls mark_response_type.
MarkResponseType ==
    /\ marks < MaxMarks
    /\ tprev' = tframe
    /\ tframe' = mark_response_type(tframe)
    /\ marks' = marks + 1
    /\ UNCHANGED origin

(***************************************************************************)
(* RouteManager::route (route.rs:41-61) called from threads, and a         *)
(* refresher that fills the map or panics while it holds the lock.         *)
(***************************************************************************)
\* How many threads call route, how many calls they make in all, and how
\* many times the refresher takes the lock.
NumCallers == 2

MaxRouteCalls == 3

MaxRefresh == 2

Callers == 1..NumCallers

Refresher == NumCallers + 1

Topics == {TextT1, TextTopic}

\* Arc<TopicRouteData>: the address of the allocation and the data in it.
Arc(ptr, data) == [ptr |-> ptr, data |-> data]

RouteOutcome(kind, arc) == [kind |-> kind, arc |-> arc]

\* Ok(None), Err(ClientError::Unknown), and no return yet.
RouteMiss == RouteOutcome("Miss", Arc(0, 0))

RouteUnknown == RouteOutcome("Unknown", Arc(0, 0))

RouteNone == RouteOutcome("None", Arc(0, 0))

\* Mutex::lock on a poisoned Mutex taken for Ok.
lock_result_ok(p) == "Ok"

\* Mutex::lock once the lock is acquired: Err when the Mutex is poisoned.
lock_result(p) == IF p THEN "Err" ELSE "Ok"

\* A lock that admits a second holder.
can_lock_always(h) == TRUE

\* Mutex::lock blocks until no thread holds the Mutex.
can_lock(h) == h = 0

\* guard.get returning an entry of the map when there is one, whatever the
\* topic.
lookup_any(map, topic) ==
    IF DOMAIN map # {}
    THEN RouteOutcome("Hit", map[CHOOSE k \in DOMAIN map : TRUE])
    ELSE RouteMiss

\* route.rs:54-60: guard.get(topic), Arc::clone of the value found.
lookup(map, topic) ==
    IF topic \in DOMAIN map
    THEN RouteOutcome("Hit", map[topic])
    ELSE RouteMiss

\* HashMap::insert: the entry of topic replaced wholesale.
Insert(map, topic, arc) ==
    [k \in DOMAIN map \cup {topic} |-> IF k = topic THEN arc ELSE map[k]]

RouteInit ==
    /\ topic_routes = EmptyMap
    /\ holder = 0
    /\ poisoned = FALSE
    /\ qpc = [t \in Callers |-> "idle"]
    /\ qtopic = [t \in Callers |-> <<>>]
    /\ qseen = [t \in Callers |-> [poisoned |-> FALSE, map |-> EmptyMap]]
    /\ qlocal = [t \in Callers |-> RouteNone]
    /\ qret = [t \in Callers |-> RouteNone]
    /\ calls = 0
    /\ refreshes = 0
    /\ nextPtr = 1

\* Caller t calls route(topic); the locals of the call start afresh.
RouteCall(t) ==
    /\ qpc[t] = "idle"
    /\ calls < MaxRouteCalls
    /\ calls' = calls + 1
    /\ \E topic \in Topics : qtopic' = [qtopic EXCEPT ![t] = topic]
    /\ qpc' = [qpc EXCEPT ![t] = "lock"]
    /\ qret' = [qret EXCEPT ![t] = RouteNone]
    /\ qseen' = [qseen EXCEPT ![t] = [poisoned |-> FALSE, map |-> EmptyMap]]
    /\ qlocal' = [qlocal EXCEPT ![t] = RouteNone]
    /\ UNCHANGED <<topic_routes, holder, poisoned, refreshes, nextPtr>>

\* route.rs:46-52: self.topic_routes.lock() acquires the Mutex; the guard is
\* in `map`, or in the PoisonError `e`.
Lock(t) ==
    /\ qpc[t] = "lock"
    /\ can_lock(holder)
    /\ holder' = t
    /\ qseen' = [qseen EXCEPT ![t] = [poisoned |-> poisoned, map |-> topic_routes]]
    /\ qpc' = [qpc EXCEPT ![t] = IF lock_result(poisoned) = "Err" THEN "err" ELSE "get"]
    /\ UNCHANGED <<topic_routes, poisoned, qtopic, qlocal, qret, calls, refreshes, nextPtr>>

\* The map access as an entry(topic).or_insert(..), which writes on a miss.
Get_or_insert(t) ==
    /\ qpc[t] = "get"
    /\ qlocal' = [qlocal EXCEPT ![t] = lookup(topic_routes, qtopic[t])]
    /\ topic_routes' = IF qtopic[t] \in DOMAIN topic_routes THEN topic_routes
                       ELSE Insert(topic_routes, qtopic[t], Arc(0, 0))
    /\ qpc' = [qpc EXCEPT ![t] = "drop"]
    /\ UNCHANGED <<holder, poisoned, qtopic, qseen, qret, calls, refreshes, nextPtr>>

\* route.rs:54-57: the map access under the guard.
Get(t) ==
    /\ qpc[t] = "get"
    /\ qlocal' = [qlocal EXCEPT ![t] = lookup(topic_routes, qtopic[t])]
    /\ qpc' = [qpc EXCEPT ![t] = "drop"]
    /\ UNCHANGED <<topic_routes, holder, poisoned, qtopic, qseen, qret, calls, refreshes, nextPtr>>

\* route.rs:48-50: the poisoned arm: Err(ClientError::Unknown).
LockPoisoned(t) ==
    /\ qpc[t] = "err"
    /\ qlocal' = [qlocal EXCEPT ![t] = RouteUnknown]
    /\ qpc' = [qpc EXCEPT ![t] = "drop"]
    /\ UNCHANGED <<topic_routes, holder, poisoned, qtopic, qseen, qret, calls, refreshes, nextPtr>>

\* route.rs:50, 55, 58: the guard goes out of scope and the Mutex is free.
DropGuard(t) ==
    /\ qpc[t] = "drop"
    /\ holder' = 0
    /\ qpc' = [qpc EXCEPT ![t] = "return"]
    /\ UNCHANGED <<topic_routes, poisoned, qtopic, qseen, qlocal, qret, calls, refreshes, nextPtr>>

\* route.rs:50, 55, 60: route returns.
RouteReturn(t) ==
    /\ qpc[t] = "return"
    /\ qret' = [qret EXCEPT ![t] = qlocal[t]]
    /\ qpc' = [qpc EXCEPT ![t] = "idle"]
    /\ UNCHANGED <<topic_routes, holder, poisoned, qtopic, qseen, qlocal, calls, refreshes, nextPtr>>

\* The refresher takes the lock.
RefreshLock ==
    /\ can_lock(holder)
    /\ ~poisoned
    /\ refreshes < MaxRefresh
    /\ refreshes' = refreshes + 1
    /\ holder' = Refresher
    /\ UNCHANGED <<topic_routes, poisoned, qpc, qtopic, qseen, qlocal, qret, calls, nextPtr>>

\* The refresher puts a new snapshot in the map and releases the lock.
RefreshInsert ==
    /\ holder = Refresher
    /\ \E topic \in Topics :
          topic_routes' = Insert(topic_routes, topic, Arc(nextPtr, refreshes))
    /\ nextPtr' = nextPtr + 1
    /\ holder' = 0
    /\ UNCHANGED <<poisoned, qpc, qtopic, qseen, qlocal, qret, calls, refreshes>>

\* The refresher panics while it holds the lock: the guard is dropped in the
\* unwinding and the Mutex is poisoned.
RefreshPanic ==
    /\ holder = Refresher
    /\ poisoned' = TRUE
    /\ holder' = 0
    /\ UNCHANGED <<topic_routes, qpc, qtopic, qseen, qlocal, qret, calls, refreshes, nextPtr>>

(***************************************************************************)
(* RouteManager::new (route.rs:20-39): the name-server list is split at     *)
(* ';' and each segment is read as a socket address.  The address parser   *)
(* is that of the standard library; the inputs hold no '[', so the IPv6     *)
(* branch of the parser fails on its first byte and is left out.           *)
(***************************************************************************)
MaxSegments == 3

DOT       == Ord(".")
SEMICOLON == Ord(";")

RECURSIVE split(_, _)
\* str::split(sep): the pieces between the separators, at least one piece.
split(s, sep) ==
    IF \E i \in 1..Len(s) : s[i] = sep
    THEN LET i == CHOOSE k \in 1..Len(s) : s[k] = sep /\ \A j \in 1..(k - 1) : s[j] # sep
         IN  <<SubSeq(s, 1, i - 1)>> \o split(SubSeq(s, i + 1, Len(s)), sep)
    ELSE <<s>>

RECURSIVE read_number(_, _, _, _, _)
\* Parser::read_number in radix 10: the digits from index i on, with the value
\* and the count of the digits read so far.  A value above limit overflows
\* the checked arithmetic of the target type; no digit at all is no number.
read_number(s, i, acc, count, limit) ==
    IF i > Len(s) \/ ~IsDigit(s[i])
    THEN IF count = 0 THEN Fail ELSE Got([value |-> acc, digits |-> count], i)
    ELSE IF acc * 10 + (s[i] - ZERO) > limit THEN Fail
    ELSE read_number(s, i + 1, acc * 10 + (s[i] - ZERO), count + 1, limit)

RECURSIVE read_ipv4_addr(_, _, _, _)
RECURSIVE read_group(_, _, _, _, _)
\* Parser::read_ipv4_addr: four groups with '.' in front of all but the first.
read_ipv4_addr(s, i, k, groups) ==
    IF k = 4 THEN Got(groups, i)
    ELSE IF k = 0 THEN read_group(s, read_number(s, i, 0, 0, 255), i, k, groups)
    ELSE IF ~At(s, i, DOT) THEN Fail
    ELSE read_group(s, read_number(s, i + 1, 0, 0, 255), i + 1, k, groups)

\* One group read as r from index from: a u8 of at most three digits, with no
\* zero in front of another digit.
read_group(s, r, from, k, groups) ==
    IF ~r.ok \/ r.val.digits > 3 \/ (r.val.digits > 1 /\ s[from] = ZERO) THEN Fail
    ELSE read_ipv4_addr(s, r.next, k + 1, Append(groups, r.val.value))

\* The port read as port after the address ip: a u16, and the end of input.
read_port(s, ip, port) ==
    IF ~port.ok \/ port.next # Len(s) + 1 THEN Fail
    ELSE Got([ip |-> ip, port |-> port.val.value], port.next)

\* Parser::read_socket_addr_v4 after the address read as ip: ':' and the port.
read_socket_addr_v4(s, ip) ==
    IF ~ip.ok \/ ~At(s, ip.next, COLON) THEN Fail
    ELSE read_port(s, ip.val, read_number(s, ip.next + 1, 0, 0, 65535))

\* str::parse::<SocketAddr>.
parse_socket_addr(s) == read_socket_addr_v4(s, read_ipv4_addr(s, 1, 0, <<>>))

RECURSIVE flat_map(_)
\* split(';').flat_map(..).collect(): the addresses of the segments that
\* parse, in the order of the segments (route.rs:21-34).
flat_map(segments) ==
    IF segments = <<>> THEN <<>>
    ELSE (IF parse_socket_addr(Head(segments)).ok
          THEN <<parse_socket_addr(Head(segments)).val>> ELSE <<>>)
         \o flat_map(Tail(segments))

NoManager == [kind |-> "None", endpoints |-> <<>>, topic_routes |-> EmptyMap]

\* A constructor that gives up when a segment is no socket address.
new_failing(a) ==
    IF \A i \in 1..Len(split(a, SEMICOLON)) : parse_socket_addr(split(a, SEMICOLON)[i]).ok
    THEN [kind |-> "Ok", endpoints |-> flat_map(split(a, SEMICOLON)),
          topic_routes |-> EmptyMap]
    ELSE [kind |-> "Err", endpoints |-> <<>>, topic_routes |-> EmptyMap]

\* RouteManager::new (route.rs:20-39).
new(a) ==
    [kind |-> "Ok", endpoints |-> flat_map(split(a, SEMICOLON)),
     topic_routes |-> EmptyMap]

\* The segments the model joins its inputs from, each with the address the
\* standard library reads it as, if any.
SocketAddr(a, b, c, d, port) == [ip |-> <<a, b, c, d>>, port |-> port]

Segments ==
    { [text |-> Text(<<"8", ".", "8", ".", "8", ".", "8", ":", "8", "0">>),
       addr |-> <<SocketAddr(8, 8, 8, 8, 80)>>],
      [text |-> Text(<<"1", "2", "7", ".", "0", ".", "0", ".", "1", ":",
                       "9", "8", "7", "6">>),
       addr |-> <<SocketAddr(127, 0, 0, 1, 9876)>>],
      [text |-> Text(<<"n", "o", "t", "-", "a", "n", "-", "a", "d", "d", "r",
                       "e", "s", "s">>),
       addr |-> <<>>],
      [text |-> Text(<<"4", ".", "4", ".", "4", ".", "4", ".", "3", ":", "8", "0">>),
       addr |-> <<>>],
      [text |-> Text(<<"1", ".", "2", ".", "3", ".", "2", "5", "6", ":", "1">>),
       addr |-> <<>>],
      [text |-> Text(<<"8", ".", "8", ".", "8", ".", "8", ":", "6", "5", "5",
                       "3", "6">>),
       addr |-> <<>>],
      [text |-> Text(<<" ", "8", ".", "8", ".", "8", ".", "8", ":", "8", "0">>),
       addr |-> <<>>],
      [text |-> <<>>, addr |-> <<>>] }

RECURSIVE Join(_)
\* The texts of the segments ss with ';' between them.
Join(ss) ==
    IF Len(ss) = 1 THEN Head(ss).text
    ELSE Head(ss).text \o <<SEMICOLON>> \o Join(Tail(ss))

\* The list the test of route.rs builds its manager from (route.rs:70).
TestSegments ==
    << [text |-> Text(<<"8", ".", "8", ".", "8", ".", "8", ":", "8", "0">>),
        addr |-> <<SocketAddr(8, 8, 8, 8, 80)>>],
       [text |-> Text(<<"4", ".", "4", ".", "4", ".", "4", ".", "3", ":", "8", "0">>),
        addr |-> <<>>] >>

\* The manager the other specifications run with.
ManagerIdle ==
    /\ segs = TestSegments
    /\ addrs = Join(segs)
    /\ manager = new(addrs)

ManagerInit ==
    /\ segs \in UNION { [1..n -> Segments] : n \in 1..MaxSegments }
    /\ addrs = Join(segs)
    /\ manager = NoManager

\* let manager = RouteManager::new(addrs).
NewManager ==
    /\ manager = NoManager
    /\ manager' = new(addrs)
    /\ UNCHANGED <<addrs, segs>>

(***************************************************************************)
(* The specifications.                                                     *)
(***************************************************************************)
Init ==
    /\ ConnInit /\ CodecIdle /\ NewInit /\ WriteInit /\ FlagIdle /\ RouteInit
    /\ ManagerIdle

\* read_frame and the peer of the connection.
ConnOnly ==
    UNCHANGED <<codecVars, newVars, writeVars, flagVars, routeVars, managerVars>>

Next ==
    \/ PeerSend /\ ConnOnly
    \/ PeerSendMalformed /\ ConnOnly
    \/ PeerSendTruncated /\ ConnOnly
    \/ PeerClose /\ ConnOnly
    \/ ReadFrameCall /\ ConnOnly
    \/ ParseStep /\ ConnOnly
    \/ ReadBuf /\ ConnOnly
    \/ ReadBufReturn /\ ConnOnly
    \/ ReadZero /\ ConnOnly
    \/ ReadError /\ ConnOnly

Spec == Init /\ [][Next]_vars

\* The task inside read_frame is run on: parse_frame is synchronous code, so
\* a call does not stay in front of it for ever (ParseStep is enabled exactly
\* when rpc = "parse" and leaves it), and a socket that has bytes or has seen
\* the close hands them to a pending read.  A failing read is possible at any
\* time and is never required.
ReadFair ==
    /\ []<>(rpc # "parse")
    /\ WF_vars((ReadBuf \/ ReadZero) /\ ConnOnly)
    /\ WF_vars(ReadBufReturn /\ ConnOnly)

SpecReadFair == Init /\ [][Next]_vars /\ ReadFair

\* The codec on one Frame value.
CodecStart ==
    /\ ConnInit /\ CodecInit /\ NewInit /\ WriteInit /\ FlagIdle /\ RouteInit
    /\ ManagerIdle

CodecOnly ==
    UNCHANGED <<connVars, newVars, writeVars, flagVars, routeVars, managerVars>>

CodecNext ==
    \/ Encode /\ CodecOnly
    \/ Tamper /\ CodecOnly
    \/ Decode /\ CodecOnly

SpecCodec == CodecStart /\ [][CodecNext]_vars

\* Frame::new called from the threads.
NewOnly ==
    UNCHANGED <<connVars, codecVars, writeVars, flagVars, routeVars, managerVars>>

NewNext ==
    \/ (\E t \in Threads : NewCall(t)) /\ NewOnly
    \/ (\E t \in Threads : FetchAdd(t)) /\ NewOnly
    \/ (\E t \in Threads : Build(t)) /\ NewOnly

SpecNew == Init /\ [][NewNext]_vars

\* Frame::new called from the threads of a process whose counter is about to
\* wrap or to change sign.
WrapStart ==
    /\ ConnInit /\ CodecIdle /\ WrapInit /\ WriteInit /\ FlagIdle /\ RouteInit
    /\ ManagerIdle

SpecWrap == WrapStart /\ [][NewNext]_vars

\* write_frame on the connection.
WriteOnly ==
    UNCHANGED <<connVars, codecVars, newVars, flagVars, routeVars, managerVars>>

WriteNext ==
    \/ WriteFrameCall /\ WriteOnly
    \/ PollWrite /\ WriteOnly
    \/ PollWriteError /\ WriteOnly
    \/ WriteAllDone /\ WriteOnly
    \/ Flush /\ WriteOnly
    \/ FlushError /\ WriteOnly

SpecWrite == Init /\ [][WriteNext]_vars

\* The type of one Frame, asked and marked.
FlagStart ==
    /\ ConnInit /\ CodecIdle /\ NewInit /\ WriteInit /\ FlagInit /\ RouteInit
    /\ ManagerIdle

FlagOnly ==
    UNCHANGED <<connVars, codecVars, newVars, writeVars, routeVars, managerVars>>

FlagNext == MarkResponseType /\ FlagOnly

SpecFlag == FlagStart /\ [][FlagNext]_vars

\* route called from the threads, and the refresher.
RouteOnly ==
    UNCHANGED <<connVars, codecVars, newVars, writeVars, flagVars, managerVars>>

RouteNext ==
    \/ (\E t \in Callers : RouteCall(t)) /\ RouteOnly
    \/ (\E t \in Callers : Lock(t)) /\ RouteOnly
    \/ (\E t \in Callers : Get(t)) /\ RouteOnly
    \/ (\E t \in Callers : LockPoisoned(t)) /\ RouteOnly
    \/ (\E t \in Callers : DropGuard(t)) /\ RouteOnly
    \/ (\E t \in Callers : RouteReturn(t)) /\ RouteOnly
    \/ RefreshLock /\ RouteOnly
    \/ RefreshInsert /\ RouteOnly
    \/ RefreshPanic /\ RouteOnly

SpecRoute == Init /\ [][RouteNext]_vars

\* route called from the threads with the operations the source has: nothing
\* writes the map and no thread panics under the lock, so the arm of the
\* poisoned lock is never entered.
RouteReadNext ==
    \/ (\E t \in Callers : RouteCall(t)) /\ RouteOnly
    \/ (\E t \in Callers : Lock(t)) /\ RouteOnly
    \/ (\E t \in Callers : Get(t)) /\ RouteOnly
    \/ (\E t \in Callers : DropGuard(t)) /\ RouteOnly
    \/ (\E t \in Callers : RouteReturn(t)) /\ RouteOnly

SpecRouteRead == Init /\ [][RouteReadNext]_vars

\* The steps of caller t once it is inside route.
RouteSteps(t) ==
    (Lock(t) \/ Get(t) \/ LockPoisoned(t) \/ DropGuard(t) \/ RouteReturn(t)) /\ RouteOnly

\* A thread that can take a step is scheduled in the end, and the refresher
\* does not hold the lock for ever.
RouteFair ==
    /\ \A t \in Callers : WF_vars(RouteSteps(t))
    /\ WF_vars((RefreshInsert \/ RefreshPanic) /\ RouteOnly)

SpecRouteFair == Init /\ [][RouteNext]_vars /\ RouteFair

\* RouteManager::new on a list of name servers.
ManagerStart ==
    /\ ConnInit /\ CodecIdle /\ NewInit /\ WriteInit /\ FlagIdle /\ RouteInit
    /\ ManagerInit

ManagerOnly ==
    UNCHANGED <<connVars, codecVars, newVars, writeVars, flagVars, routeVars>>

ManagerNext == NewManager /\ ManagerOnly

SpecManager == ManagerStart /\ [][ManagerNext]_vars

(***************************************************************************)
(* Properties of the receive side.                                         *)
(***************************************************************************)
RECURSIVE Concat(_)
\* The bytes of a sequence of written messages, in order.
Concat(msgs) == IF msgs = <<>> THEN <<>> ELSE Head(msgs).bytes \o Concat(Tail(msgs))

\* C1: on a stream of whole well-formed frames, however the socket reads cut
\* it, read_frame returns no decode error, no reset and does not panic, and a
\* frame it returns is the frame read_frame returns when the bytes of that
\* frame arrive in a single read.
C1_PartialDelivery ==
    stream = "whole" =>
        /\ rret.kind \in {"None", "Frame", "Eof", "Io"}
        /\ rpc # "aborted"
        /\ rret.kind = "Frame" =>
              /\ Len(got) <= Len(sent)
              /\ rret = parse_frame(sent[Len(got)].bytes).ret

\* C1 witness: a frame was returned by a call that had found the buffer to
\* end inside the 4-byte total_length field: the frame came in several chunks.
C1_Witness ==
    /\ stream = "whole"
    /\ rret.kind = "Frame"
    /\ cut = "total_length"

\* C2: the frames returned are the frames written, in order, and the bytes
\* of every frame not yet returned are still in the buffer or in flight.
C2_InOrderNothingDropped ==
    stream \in {"whole", "truncated"} =>
        /\ Len(got) <= Len(sent)
        /\ \A i \in 1..Len(got) : got[i] = sent[i].frame
        /\ buffer \o wire = Concat(SubSeq(sent, Len(got) + 1, Len(sent)))

\* C2 witness: one read brought the first frame and the whole second frame;
\* the call returned the first and the second is still in the buffer.
C2_Witness ==
    /\ stream = "whole"
    /\ Len(sent) = 2
    /\ Len(got) = 1
    /\ rret.kind = "Frame"
    /\ cut = "none"
    /\ buffer = sent[2].bytes

\* C4: after a read of zero bytes read_frame reports end-of-stream exactly
\* when the buffer is empty and ConnectionReset when it holds an incomplete
\* prefix; a stream closed after whole frames never ends in ConnectionReset
\* and a stream closed inside a frame never ends in end-of-stream.
C4_EndOfStreamOrReset ==
    /\ rret.kind = "Eof" => buffer = <<>> /\ wire = <<>> /\ peerClosed
    /\ rret.kind = "ConnectionReset" =>
          /\ buffer # <<>>
          /\ check(buffer).res = "Incomplete"
          /\ wire = <<>>
          /\ peerClosed
    /\ stream = "whole" => rret.kind # "ConnectionReset"
    /\ stream = "truncated" => rret.kind # "Eof"

\* C4 witness: the peer closed inside its second frame; the first frame was
\* returned and the next call reported ConnectionReset.
C4_Witness ==
    /\ stream = "truncated"
    /\ Len(got) = 1
    /\ rret.kind = "ConnectionReset"

\* C5 (as claimed): with a negative total_length at the head of the buffer
\* read_frame does not go on to read from the socket and does not end in
\* ConnectionReset.
C5_MalformedLengthIsDecodeError ==
    (Len(buffer) >= 4 /\ GetI32(buffer, 0) < 0) =>
        /\ rpc # "read"
        /\ rret.kind # "ConnectionReset"

(***************************************************************************)
(* Properties of the codec.                                                *)
(***************************************************************************)
\* C3: check succeeds on the bytes encode produced and parse yields a Frame
\* equal to the encoded one in every field, body included.
C3_RoundTrip ==
    (cpc = "decoded" /\ ctamper = "none") =>
        /\ cchk = [res |-> "Ok", pos |-> Len(cbuf)]
        /\ cres = OkFrame(cframe)

\* C3 witness: the round trip of a frame with a remark that needs escaping,
\* two extension fields, a body and the smallest opaque.
C3_Witness ==
    /\ cpc = "decoded"
    /\ ctamper = "none"
    /\ cres.kind = "Frame"
    /\ cframe.remark = <<QUOTE, Ord("a"), BACKSLASH>>
    /\ Cardinality(DOMAIN cframe.ext_fields) = 2
    /\ cframe.body = <<LBRACE, 255, 0>>
    /\ cframe.opaque = I32Min

\* C6 (as claimed): when check succeeded and header_length is negative, or
\* exceeds total_length - 4 or the bytes after it, or the header bytes are
\* not a header, parse returns InvalidFrame.
C6_ParseFailsWithDecodeError ==
    (cpc = "decoded" /\ cchk.res = "Ok") =>
        LET total_length  == GetI32(cbuf, 0)
            header_length == GetI32(cbuf, 4)
        IN  (\/ header_length < 0
             \/ header_length > total_length - 4
             \/ header_length > Len(cbuf) - 8
             \/ ~FromReader(SubSeq(cbuf, 9, 8 + header_length)).ok)
            => cres.kind = "InvalidFrame"

\* C9: the encoded bytes are 4 + total_length long: total_length and
\* header_length big-endian, the header, then the body as it is, with
\* total_length = 4 + header_length + body length.
C9_EncodedLayout ==
    (cpc = "encoded" /\ ctamper = "none") =>
        LET total_length  == GetI32(cbuf, 0)
            header_length == GetI32(cbuf, 4)
        IN  /\ Len(cbuf) = 4 + total_length
            /\ total_length = 4 + header_length + Len(cframe.body)
            /\ SubSeq(cbuf, 1, 4) = PutI32(total_length)
            /\ SubSeq(cbuf, 5, 8) = PutI32(header_length)
            /\ \E keys \in KeyOrders(cframe.ext_fields) :
                  SubSeq(cbuf, 9, 8 + header_length) = ToVec(cframe, keys)
            /\ SubSeq(cbuf, 9 + header_length, Len(cbuf)) = cframe.body

\* C9 witness: the request of connection.rs:129-132 encoded, with an empty
\* body: total_length is 4 + the header's length.
C9_Witness ==
    /\ cpc = "encoded"
    /\ ctamper = "none"
    /\ cframe.code = 105
    /\ cframe.language = "CPP"
    /\ cframe.ext_fields = (TextTopic :> TextT1)
    /\ cframe.body = <<>>
    /\ GetI32(cbuf, 0) = 4 + GetI32(cbuf, 4)

\* C19 (as claimed): when parse_frame returns a Frame, it removes the first
\* 4 + total_length bytes of the buffer, and the header and the body of that
\* Frame end at or before the position check advanced to.
C19_FrameFromRemovedBytes ==
    (cpc = "decoded" /\ cres.kind = "Frame") =>
        LET total_length  == GetI32(cbuf, 0)
            header_length == GetI32(cbuf, 4)
        IN  /\ parse_frame(cbuf).ret = cres
            /\ cchk.pos = 4 + total_length
            /\ parse_frame(cbuf).buffer = SubSeq(cbuf, 4 + total_length + 1, Len(cbuf))
            /\ 8 + header_length + Len(cres.frame.body) <= cchk.pos

(***************************************************************************)
(* Properties of Frame::new.                                               *)
(***************************************************************************)
\* C7: the opaque of a call of Frame::new is greater than the opaque of every
\* call that had returned when it began, the values handed out grow, and the
\* first value handed out is 0.
C7_Monotonic ==
    /\ \A i \in 1..Len(made) : \A j \in 1..made[i].began :
          made[j].frame.opaque < made[i].frame.opaque
    /\ \A i \in 1..Len(handed) : \A j \in 1..(i - 1) : handed[j] < handed[i]
    /\ handed # <<>> => handed[1] = 0

\* C7 witness: three calls returned, the third begun by the other thread
\* after the first two had returned.
C7_Witness ==
    /\ Len(made) = 3
    /\ made[3].began = 2
    /\ made[3].thread # made[2].thread
    /\ made[3].frame.opaque = 2

\* C8: no two Frames built by Frame::new have the same opaque, whichever
\* threads built them and however their calls overlapped.
C8_Unique ==
    \A i \in 1..Len(made) : \A j \in 1..Len(made) :
        i # j => made[i].frame.opaque # made[j].frame.opaque

\* C8 witness: two threads were inside Frame::new at the same time, and the
\* one that did its fetch_add later returned first.
C8_Witness ==
    /\ Len(made) >= 2
    /\ made[1].thread # made[2].thread
    /\ made[2].began = 0
    /\ made[1].frame.opaque > made[2].frame.opaque

\* C18: the opaque values count up by one as signed 32-bit numbers, from -1 to
\* 0 and from i32::MAX around to i32::MIN; every call returns a Frame holding
\* the value it was handed, and the counter holds the value after the last one.
C18_WrapsAround ==
    /\ \A i \in 1..(Len(handed) - 1) :
          IF handed[i] = I32Max THEN handed[i + 1] = I32Min
          ELSE handed[i + 1] = handed[i] + 1
    /\ handed # <<>> =>
          IF handed[Len(handed)] = I32Max THEN SEQUENCE = I32Min
          ELSE SEQUENCE = handed[Len(handed)] + 1
    /\ \A i \in 1..Len(made) : \E j \in 1..Len(handed) : made[i].frame.opaque = handed[j]
    /\ \A t \in Threads : tpc[t] = "build" => \E j \in 1..Len(handed) : local[t] = handed[j]

\* C18 witness: i32::MAX was handed out, the next value handed out was
\* i32::MIN, and a Frame was built around it.
C18_Witness ==
    /\ \E i \in 1..(Len(handed) - 1) : handed[i] = I32Max /\ handed[i + 1] = I32Min
    /\ \E i \in 1..Len(made) : made[i].frame.opaque = I32Min

(***************************************************************************)
(* Properties of the send side.                                            *)
(***************************************************************************)
\* C10: when write_frame has returned Ok the BufWriter holds no byte, the
\* bytes of encode(frame) are the last bytes handed to the socket, in order,
\* and they are a whole frame; no call finds encode to yield no bytes.
C10_WrittenAndFlushed ==
    /\ ~noop
    /\ (wpc = "idle" /\ wret.kind = "Ok") =>
          /\ stream_buf = <<>>
          /\ rest = <<>>
          /\ Len(wbytes) >= 8
          /\ Len(socket_out) >= Len(wbytes)
          /\ SubSeq(socket_out, Len(socket_out) - Len(wbytes) + 1, Len(socket_out)) = wbytes

\* C10 witness: the second call returned Ok for a frame that went through
\* the buffer, and the socket has the bytes of the first call, flushed by
\* that call or left in the BufWriter by its failure, followed by its own.
C10_Witness ==
    /\ wpc = "idle"
    /\ wret.kind = "Ok"
    /\ writes = 2
    /\ Len(wbytes) < WriterCap
    /\ Len(socket_out) = 2 * Len(wbytes)

(***************************************************************************)
(* Properties of the outcomes of read_frame.                               *)
(***************************************************************************)
\* C11 (as claimed): whatever the buffer holds and however the bytes are
\* delivered, read_frame never hands Incomplete to its caller and ends in one
\* of a Frame, end-of-stream, ConnectionReset, a transport error or a decode
\* error; it does not end in any other way.
C11_OutcomesOfReadFrame ==
    /\ rret.kind \in {"None", "Frame", "Eof", "ConnectionReset", "Io", "InvalidFrame"}
    /\ rpc # "aborted"

\* C12 (as claimed): a decode error comes from the data in the buffer and not
\* from a failing read, and a stream with malformed frame data does not end
\* in ConnectionReset or in any way other than InvalidFrame, apart from the
\* transport error of a failing read.
C12_ErrorKindsKeptApart ==
    /\ rret.kind = "InvalidFrame" => (stream = "garbage" /\ rret = parse_frame(buffer).ret)
    /\ stream = "garbage" => (rret.kind # "ConnectionReset" /\ rpc # "aborted")

\* C20: a parse_frame that reports Incomplete or a decode error leaves the
\* buffer as it was; once read_frame has returned a decode error, no byte is
\* read from the socket any more, the buffer stays as it is, and every later
\* call returns that same error.
C20_NothingConsumedOnError ==
    /\ [][(rpc = "parse" /\ parse_frame(buffer).ret.kind \in {"Incomplete", "InvalidFrame"})
            => buffer' = buffer]_vars
    /\ [][(errs # <<>>) => UNCHANGED <<buffer, wire>>]_vars
    /\ [](errs # <<>> =>
            /\ \A i \in 1..Len(errs) : errs[i] = errs[1]
            /\ rpc \in {"idle", "parse"}
            /\ rret \in {NoReturn, errs[1]}
            /\ parse_frame(buffer) = [ret |-> errs[1], buffer |-> buffer])

\* C20 witness: a second call has returned the decode error of the first,
\* with bytes of a later frame waiting on the socket, unread.
C20_Witness ==
    /\ Len(errs) = 2
    /\ rpc = "idle"
    /\ rret = errs[2]
    /\ wire # <<>>
    /\ buffer # <<>>

(***************************************************************************)
(* Properties of the flag.                                                 *)
(***************************************************************************)
\* C13: a Frame from Frame::new is a Request; after mark_response_type a
\* Frame is a Response, and a second call leaves it as it is; for every flag,
\* negative ones included, frame_type is Response exactly when the flag is
\* odd (bit 0 set); mark_response_type changes no bit but bit 0 and no field
\* but flag.
C13_FlagSemantics ==
    /\ (origin = "new" /\ marks = 0) => frame_type(tframe) = "Request"
    /\ marks >= 1 => frame_type(tframe) = "Response"
    /\ marks >= 2 => tframe = tprev
    /\ frame_type(tframe) = "Response" <=> tframe.flag % 2 = 1
    /\ tframe.flag = IF tprev.flag % 2 = 1 \/ marks = 0 THEN tprev.flag ELSE tprev.flag + 1
    /\ \A i \in 1..31 : Bit(tframe.flag, i) = Bit(tprev.flag, i)
    /\ [tframe EXCEPT !.flag = 0] = [tprev EXCEPT !.flag = 0]

\* C13 witness: a Frame from the wire with flag -2 was marked: the flag is
\* -1, every bit above bit 0 as before.
C13_Witness ==
    /\ origin = "parsed"
    /\ marks = 1
    /\ tprev.flag = -2
    /\ tframe.flag = -1
    /\ frame_type(tprev) = "Request"
    /\ frame_type(tframe) = "Response"

(***************************************************************************)
(* Properties of the route cache.                                          *)
(***************************************************************************)
\* C14: a route call that found the lock sound returns "not found" when the
\* map is empty or holds no entry for its topic, and the very Arc the map
\* holds for its topic, the same allocation, when it holds one.
C14_CacheBehaviour ==
    \A t \in Callers :
        (qret[t].kind # "None" /\ ~qseen[t].poisoned) =>
            /\ qseen[t].map = EmptyMap => qret[t] = RouteMiss
            /\ qtopic[t] \notin DOMAIN qseen[t].map => qret[t] = RouteMiss
            /\ qtopic[t] \in DOMAIN qseen[t].map =>
                  qret[t] = RouteOutcome("Hit", qseen[t].map[qtopic[t]])

\* C14 witness: on a map with one entry one caller got the Arc of its topic
\* and the other caller, asking for another topic, got "not found".
C14_Witness ==
    \E t \in Callers : \E u \in Callers :
        /\ qret[t].kind = "Hit"
        /\ qret[t].arc.ptr >= 1
        /\ qret[u] = RouteMiss
        /\ qseen[u].map = qseen[t].map
        /\ qtopic[u] # qtopic[t]

\* C15: a route call that finds the lock poisoned returns
\* ClientError::Unknown, never "not found" or a cached value, and only such a
\* call returns it; the poison stays, so no call after it reaches the map.
C15_PoisonIsUnknown ==
    /\ \A t \in Callers :
          qret[t].kind # "None" => (qseen[t].poisoned <=> qret[t] = RouteUnknown)
    /\ (\E t \in Callers : qret[t] = RouteUnknown) => poisoned
    /\ poisoned => \A t \in Callers : qpc[t] # "get"

\* C15 witness: the map held an entry for the topic asked when the lock was
\* poisoned, and the call returned Unknown.
C15_Witness ==
    \E t \in Callers :
        /\ qret[t] = RouteUnknown
        /\ qtopic[t] \in DOMAIN qseen[t].map
        /\ qtopic[t] \in DOMAIN topic_routes

\* The callers inside the guarded block of route.
InsideRoute == {t \in Callers : qpc[t] \in {"get", "err", "drop"}}

\* C17: at most one caller is inside the guarded block, and it is the holder
\* of the Mutex; a caller that is about to return or has returned does not
\* hold it; no step taken while a caller holds it touches a connection; and
\* with every thread scheduled, every route call returns: no caller stays
\* inside a call for ever.
C17_ExclusiveAndLive ==
    /\ [](Cardinality(InsideRoute) <= 1)
    /\ [](\A t \in Callers : holder = t <=> t \in InsideRoute)
    /\ [](\A t \in Callers : qpc[t] \in {"idle", "return"} => holder # t)
    /\ [][(holder \in Callers) => UNCHANGED <<connVars, writeVars>>]_vars
    /\ \A t \in Callers : []<>(qpc[t] = "idle")

\* C17 witness: one caller is at the map access and the other waits for the
\* lock.
C17_Witness ==
    \E t \in Callers : \E u \in Callers :
        /\ qpc[t] = "get"
        /\ qpc[u] = "lock"
        /\ holder = t

RECURSIVE Addresses(_)
\* The addresses of the segments ss that are socket addresses, in order.
Addresses(ss) == IF ss = <<>> THEN <<>> ELSE Head(ss).addr \o Addresses(Tail(ss))

\* C16: RouteManager::new does not fail whatever the list holds, and the
\* endpoints of the manager are the segments that are socket addresses, in the
\* order of the list, none when no segment is one; the route map starts empty.
C16_NewKeepsParseable ==
    manager # NoManager =>
        /\ manager.kind = "Ok"
        /\ manager.endpoints = Addresses(segs)
        /\ manager.topic_routes = EmptyMap

\* Built from "8.8.8.8:80;not-an-address": the one endpoint 8.8.8.8:80.
C16_Witness ==
    /\ Len(segs) = 2
    /\ segs[1].addr = <<SocketAddr(8, 8, 8, 8, 80)>>
    /\ segs[2].text = Text(<<"n", "o", "t", "-", "a", "n", "-", "a", "d", "d",
                             "r", "e", "s", "s">>)
    /\ manager.kind = "Ok"
    /\ manager.endpoints = <<SocketAddr(8, 8, 8, 8, 80)>>

(***************************************************************************)
(* Termination of read_frame.                                              *)
(***************************************************************************)
\* The pending read has nothing to bring: the peer has written nothing more
\* and has not closed.
PeerSilent == rpc = "read" /\ wire = <<>> /\ ~peerClosed

\* No call is under way: the last one returned, if there was one.
Returned ==
    /\ rpc = "idle"
    /\ rret.kind \in {"None", "Frame", "Eof", "ConnectionReset", "InvalidFrame", "Io"}

\* Every call comes to an end, by a return or by the panic of Frame::parse,
\* and on a stream without malformed messages by a return.
ReadFrameEnds ==
    /\ []<>(Returned \/ PeerSilent \/ rpc = "aborted")
    /\ []<>(stream = "garbage" \/ Returned \/ PeerSilent)

\* C21 (as claimed): unless the peer stays silent with its end open, every
\* read_frame call returns in the end.
C21_ReadFrameReturns == []<>(Returned \/ PeerSilent)

====
